---- MODULE Spec2Model ----
(***************************************************************************)
(* SpreadsheetChat (src/spreadsheet_chat/src/main.py): a console loop that  *)
(* loads CSV files into an in-memory SQLite store, mirrors them in a        *)
(* registry (self.tables), and runs SQL extracted from a generated reply.   *)
(*                                                                          *)
(* Text is modelled as sequences of one-character strings, so that strip,   *)
(* lower, startswith, basename/splitext and the extraction regular          *)
(* expression are computed character by character as Python computes them.  *)
(* An optional value (Python's None or a value) is a sequence of length 0   *)
(* or 1.                                                                    *)
(***************************************************************************)
EXTENDS Integers, Sequences, FiniteSets, TLC

VARIABLES tables, store, log, state, turns, last

vars == <<tables, store, log, state, turns, last>>

\* ---------------------------------------------------------------- bounds
\* Number of input lines the loop reads in one behaviour.
MaxTurns == 3
\* Number of text pieces a generated reply is assembled from (SpecExtract).
MaxPieces == 3

\* ---------------------------------------------------------------- text
None == <<>>
Some(x) == <<x>>

Upper == <<"A","B","C","D","E","F","G","H","I","J","K","L","M",
           "N","O","P","Q","R","S","T","U","V","W","X","Y","Z">>
Lowercase == <<"a","b","c","d","e","f","g","h","i","j","k","l","m",
               "n","o","p","q","r","s","t","u","v","w","x","y","z">>

\* str.lower() on one character.
LowerChar(c) ==
  IF \E i \in 1..Len(Upper) : Upper[i] = c
  THEN Lowercase[CHOOSE i \in 1..Len(Upper) : Upper[i] = c]
  ELSE c

\* str.lower()
Lower(s) == [i \in 1..Len(s) |-> LowerChar(s[i])]

\* The characters str.strip() removes.
Whitespace == {" ", "\t", "\n", "\r"}

\* str.strip(): drop leading and trailing whitespace.
Strip(s) ==
  LET keep == {i \in 1..Len(s) : s[i] \notin Whitespace}
  IN IF keep = {} THEN <<>>
     ELSE LET lo == CHOOSE i \in keep : \A j \in keep : i <= j
              hi == CHOOSE i \in keep : \A j \in keep : j <= i
          IN SubSeq(s, lo, hi)

\* s[i:].startswith(p), 1-based i.
MatchAt(s, i, p) ==
  /\ i + Len(p) - 1 <= Len(s)
  /\ \A k \in 1..Len(p) : s[i + k - 1] = p[k]

\* str.startswith
StartsWith(s, p) == MatchAt(s, 1, p)

\* s[n:] (0-based n, as Python slices)
DropFirst(s, n) == SubSeq(s, n + 1, Len(s))

\* os.path.basename: what follows the last "/".
Basename(p) ==
  LET sl == {i \in 1..Len(p) : p[i] = "/"}
  IN IF sl = {} THEN p
     ELSE DropFirst(p, CHOOSE i \in sl : \A j \in sl : j <= i)

\* os.path.splitext(b)[0]: b up to its last dot, unless only dots precede it.
SplitextRoot(b) ==
  LET dots == {i \in 1..Len(b) : b[i] = "."}
  IN IF dots = {} THEN b
     ELSE LET d == CHOOSE i \in dots : \A j \in dots : j <= i
          IN IF \E k \in 1..(d - 1) : b[k] # "." THEN SubSeq(b, 1, d - 1) ELSE b

\* ---------------------------------------------------------------- files
\* A DataFrame: its column names in order and its number of data rows.
DF(cols, rows) == [cols |-> cols, rows |-> rows]

Path_t  == <<"t", ".", "c", "s", "v">>
Path_dt == <<"d", "/", "t", ".", "c", "s", "v">>
Path_u  == <<"u", ".", "c", "s", "v">>
Path_x  == <<"x", ".", "c", "s", "v">>

\* The CSV files pd.read_csv can read; every other path raises.
\* d/t.csv has two columns that differ only in case.
FileSystem ==
  (Path_t  :> DF(<<"a", "b">>, 2)) @@
  (Path_dt :> DF(<<"a", "A">>, 1)) @@
  (Path_u  :> DF(<<"b">>, 1))

\* pd.read_csv(filename): the DataFrame, or None when it raises.
read_csv(filename) ==
  IF filename \in DOMAIN FileSystem THEN Some(FileSystem[filename]) ELSE None

\* ---------------------------------------------------------------- store
EmptyMap == [n \in {} |-> 0]

Remove(m, k) == [n \in DOMAIN m \ {k} |-> m[n]]

Put(m, k, v) == (k :> v) @@ Remove(m, k)

\* SQLite refuses CREATE TABLE when a table of that name exists (names compare
\* ignoring case) or when two columns have the same name ignoring case.
CreateFails(name, df, S) ==
  \/ \E n \in DOMAIN S : Lower(n) = Lower(name)
  \/ \E i, j \in 1..Len(df.cols) : i # j /\ LowerChar(df.cols[i]) = LowerChar(df.cols[j])

\* to_sql with if_exists='append': rows are added to an existing table.
to_sql_append(name, df, S, dropStays) ==
  IF name = <<>> THEN [store |-> S, exc |-> TRUE]
  ELSE IF name \in DOMAIN S
  THEN IF S[name].cols # df.cols
       THEN [store |-> S, exc |-> TRUE]
       ELSE [store |-> Put(S, name, DF(df.cols, S[name].rows + df.rows)), exc |-> FALSE]
  ELSE IF CreateFails(name, df, S)
       THEN [store |-> S, exc |-> TRUE]
       ELSE [store |-> Put(S, name, df), exc |-> FALSE]

\* df.to_sql(name, conn, if_exists='replace', index=False): [store, exc].
\* pandas rejects an empty name before touching the store; an existing table
\* (exact name) is dropped and then created again.  When that CREATE fails the
\* drop has happened; dropStays says whether it outlives the failed call.
to_sql(name, df, S, dropStays) ==
  IF name = <<>> THEN [store |-> S, exc |-> TRUE]
  ELSE IF name \in DOMAIN S
  THEN IF CreateFails(name, df, Remove(S, name))
       THEN [store |-> IF dropStays THEN Remove(S, name) ELSE S, exc |-> TRUE]
       ELSE [store |-> Put(S, name, df), exc |-> FALSE]
  ELSE IF CreateFails(name, df, S)
       THEN [store |-> S, exc |-> TRUE]
       ELSE [store |-> Put(S, name, df), exc |-> FALSE]

\* ---------------------------------------------------------------- load_csv
\* What the user types at the collision prompt, and at the new-name prompt.
Choices == {<<"o">>, <<"r">>, <<"R">>, <<"s">>, <<"S">>, <<>>}
NewNames == {<<>>, <<"t">>, <<"T">>, <<"u">>}

\* The skip test without .lower().
IsSkip_exact(choice) == choice = <<"s">>

\* choice.lower() == 's'
IsSkip(choice) == Lower(choice) = <<"s">>

\* choice.lower() == 'r'
IsRename(choice) == Lower(choice) = <<"r">>

\* The new name is asked for and then not used.
TableName_derived(exists, choice, newname, derived) == derived

\* The name the table is written under: the answer to the new-name prompt
\* after a rename answer (taken as typed, not checked), else the derived name.
TableName(exists, choice, newname, derived) ==
  IF exists /\ IsRename(choice) THEN newname ELSE derived

\* SpreadsheetChat.load_csv(filename), with the console answers it may ask for.
\* Result: the registry, the store, the error log length, the return value,
\* whether the collision prompt and the new-name prompt were shown, and the
\* table name written (if any).
load_csv(filename, choice, newname, dropStays, T, S, L) ==
  LET read == read_csv(filename)
  IN IF read = None
     THEN [tables |-> T, store |-> S, log |-> L + 1, ret |-> FALSE,
           prompted |-> FALSE, asked |-> FALSE, name |-> None]
     ELSE
       LET df == read[1]
           derived == SplitextRoot(Basename(filename))
           exists == derived \in DOMAIN S
       IN IF exists /\ ~IsRename(choice) /\ IsSkip(choice)
          THEN [tables |-> T, store |-> S, log |-> L, ret |-> FALSE,
                prompted |-> TRUE, asked |-> FALSE, name |-> None]
          ELSE
            LET table_name == TableName(exists, choice, newname, derived)
                w == to_sql(table_name, df, S, dropStays)
            IN [tables |-> Put(T, table_name, df), store |-> w.store,
                log |-> IF w.exc THEN L + 1 ELSE L, ret |-> ~w.exc,
                prompted |-> exists, asked |-> exists /\ IsRename(choice),
                name |-> Some(table_name)]

\* ---------------------------------------------------------------- queries
Select      == <<"S", "E", "L", "E", "C", "T">>
Explanation == <<"E", "x", "p", "l", "a", "n", "a", "t", "i", "o", "n">>
SqlQuery    == <<"S", "Q", "L", " ", "Q", "u", "e", "r", "y">>
FromPrefix  == <<" ", "*", " ", "F", "R", "O", "M", " ">>

\* The only statements the modelled store accepts: SELECT * FROM <table>;
SelectStar(n) == Select \o FromPrefix \o n \o <<";">>

\* Table names PRAGMA table_info(<name>) parses; the empty name is a syntax error.
ValidIdent(n) == n # <<>>

\* SpreadsheetChat.get_schema: raises when a registry key is no identifier.
get_schema_raises(T) == \E n \in DOMAIN T : ~ValidIdent(n)

\* What the external service does with one request: it raises, or it answers
\* with a message whose content is None or a text.
GenOutcome(exc, content) == [exc |-> exc, content |-> content]

\* SpreadsheetChat.generate_sql: [response, log, exc]; every exception is
\* caught, logged and turned into None.
generate_sql(gen, T, L) ==
  IF get_schema_raises(T) \/ gen.exc
  THEN [response |-> None, log |-> L + 1, exc |-> FALSE]
  ELSE [response |-> gen.content, log |-> L, exc |-> FALSE]

\* pd.read_sql_query(sql, conn): the rows, or an exception.
read_sql_query(sql, S) ==
  IF \E n \in DOMAIN S : sql = SelectStar(n)
  THEN [results |-> Some(S[CHOOSE n \in DOMAIN S : sql = SelectStar(n)]), exc |-> FALSE]
  ELSE [results |-> None, exc |-> TRUE]

\* execute_query that catches the exception without logging it.
execute_query_nolog(sql, S, L) ==
  [results |-> read_sql_query(sql, S).results, log |-> L, exc |-> FALSE]

\* execute_query without its try/except: the exception reaches the caller.
execute_query_nocatch(sql, S, L) ==
  LET r == read_sql_query(sql, S)
  IN [results |-> r.results, log |-> L, exc |-> r.exc]

\* SpreadsheetChat.execute_query: [results, log, exc].
execute_query(sql, S, L) ==
  LET r == read_sql_query(sql, S)
  IN IF r.exc
     THEN [results |-> None, log |-> L + 1, exc |-> FALSE]
     ELSE [results |-> r.results, log |-> L, exc |-> FALSE]

\* The same search with a greedy .* : the match runs to the last stop.
re_search_greedy(response) ==
  LET starts == {i \in 1..Len(response) : MatchAt(response, i, Select)}
  IN IF starts = {} THEN None
     ELSE
       LET i == CHOOSE a \in starts : \A b \in starts : a <= b
       IN Some(SubSeq(response, i, Len(response)))

\* re.search(r'SELECT.*?(?=Explanation|$)', response, re.DOTALL): the leftmost
\* "SELECT", extended lazily to the first position where "Explanation" follows
\* or where $ matches (the end, or just before a final newline).
re_search(response) ==
  LET starts == {i \in 1..Len(response) : MatchAt(response, i, Select)}
  IN IF starts = {} THEN None
     ELSE
       LET i == CHOOSE a \in starts : \A b \in starts : a <= b
           stops == {j \in (i + Len(Select))..(Len(response) + 1) :
                       \/ MatchAt(response, j, Explanation)
                       \/ j = Len(response) + 1
                       \/ j = Len(response) /\ response[j] = "\n"}
           j == CHOOSE a \in stops : \A b \in stops : a <= b
       IN Some(SubSeq(response, i, j - 1))

\* sql_match.group(0).strip(), or None without a match.
extract_sql(response) ==
  LET m == re_search(response)
  IN IF m = None THEN None ELSE Some(Strip(m[1]))

\* `if response:` - None and the empty text are both false.
Truthy(response) == response # None /\ response[1] # <<>>

\* The query path with the apology attached to the extraction's `if`.
query_rest_apology(g, S) ==
  IF ~Truthy(g.response)
  THEN [response |-> g.response, sql |-> None, results |-> None,
        events |-> <<"generate">>, log |-> g.log, exc |-> g.exc]
  ELSE
    LET sql == extract_sql(g.response[1])
    IN IF sql = None
       THEN [response |-> g.response, sql |-> None, results |-> None,
             events |-> <<"generate", "print_reply", "extract", "apology">>,
             log |-> g.log, exc |-> g.exc]
       ELSE
         LET e == execute_query(sql[1], S, g.log)
         IN [response |-> g.response, sql |-> sql, results |-> e.results,
             events |-> <<"generate", "print_reply", "extract", "execute">>
                        \o (IF e.results # None /\ ~e.exc
                            THEN <<"print_results">> ELSE <<>>),
             log |-> e.log, exc |-> g.exc \/ e.exc]

\* Lines 129-142 of chat_interface, after generate_sql returned g:
\* [response, sql, results, events, log, exc]; events lists the steps taken,
\* in order.
query_rest(g, S) ==
  IF ~Truthy(g.response)
  THEN [response |-> g.response, sql |-> None, results |-> None,
        events |-> <<"generate", "apology">>, log |-> g.log, exc |-> g.exc]
  ELSE
    LET sql == extract_sql(g.response[1])
    IN IF sql = None
       THEN [response |-> g.response, sql |-> None, results |-> None,
             events |-> <<"generate", "print_reply", "extract">>,
             log |-> g.log, exc |-> g.exc]
       ELSE
         LET e == execute_query(sql[1], S, g.log)
         IN [response |-> g.response, sql |-> sql, results |-> e.results,
             events |-> <<"generate", "print_reply", "extract", "execute">>
                        \o (IF e.results # None /\ ~e.exc
                            THEN <<"print_results">> ELSE <<>>),
             log |-> e.log, exc |-> g.exc \/ e.exc]

\* The else branch of chat_interface (lines 127-142).
query_path(gen, T, S, L) == query_rest(generate_sql(gen, T, L), S)

\* ---------------------------------------------------------------- chat loop
W_exit == <<"e", "x", "i", "t">>
W_list == <<"l", "i", "s", "t">>
W_load_ == <<"l", "o", "a", "d", " ">>

\* The chain with the 'load ' prefix compared ignoring case.
Dispatch_anycase(user_input) ==
  IF Lower(user_input) = W_exit THEN "exit"
  ELSE IF Lower(user_input) = W_list THEN "list"
  ELSE IF StartsWith(Lower(user_input), W_load_) THEN "load"
  ELSE "query"

\* The if/elif chain of chat_interface on the stripped line.
Dispatch(user_input) ==
  IF Lower(user_input) = W_exit THEN "exit"
  ELSE IF Lower(user_input) = W_list THEN "list"
  ELSE IF StartsWith(user_input, W_load_) THEN "load"
  ELSE "query"

\* filename = user_input[5:].strip()
LoadFilename(user_input) == Strip(DropFirst(user_input, 5))

\* The lines the user may type (before .strip()).
LoadLines == {<<"l", "o", "a", "d", " ", "t", ".", "c", "s", "v">>,
              <<"l", "o", "a", "d", " ", " ", "d", "/", "t", ".", "c", "s", "v", " ">>,
              <<"l", "o", "a", "d", " ", "u", ".", "c", "s", "v">>,
              <<"l", "o", "a", "d", " ", "x", ".", "c", "s", "v">>}
Lines == LoadLines \cup
         {<<"e", "x", "i", "t">>, <<" ", "E", "X", "I", "T", " ">>,
          <<"l", "i", "s", "t">>, <<"L", "i", "s", "t">>,
          <<"L", "O", "A", "D", " ", "t", ".", "c", "s", "v">>,
          <<"l", "o", "a", "d">>,
          <<"l", "o", "a", "d", "\t", "t", ".", "c", "s", "v">>,
          <<"e", "x", "i", "t", "s">>,
          <<"t", "o", "t", "a", "l", " ", "o", "f", " ", "b", "?">>}

\* The replies the service gives in the chat loop.
Reply_example == SqlQuery \o <<"\n">> \o SelectStar(<<"t">>) \o <<"\n">>
                 \o Explanation \o <<":", " ", ".", ".", ".">>
ChatReplies == {Reply_example,
                SelectStar(<<"u">>),
                SelectStar(<<"z">>) \o <<"\n">>,
                Lower(Select) \o FromPrefix \o <<"t", ";">>,
                <<>>}
GenOutcomes(replies) ==
  {GenOutcome(TRUE, None), GenOutcome(FALSE, None)}
    \cup {GenOutcome(FALSE, Some(r)) : r \in replies}

\* The record of the last turn (observations of what the turn did).
NoTurn ==
  [line |-> <<>>, handler |-> "none", listed |-> {}, filename |-> None,
   prompted |-> FALSE, choice |-> None, newname |-> None, ret |-> None,
   name |-> None, response |-> None, sql |-> None, results |-> None,
   events |-> <<>>]

Init ==
  /\ tables = EmptyMap
  /\ store = EmptyMap
  /\ log = 0
  /\ state = "idle"
  /\ turns = 0
  /\ last = NoTurn

\* One pass of `while True:` reads a line.
Reads(line, handler) ==
  /\ state = "idle"
  /\ turns < MaxTurns
  /\ Dispatch(Strip(line)) = handler
  /\ turns' = turns + 1

\* user_input.lower() == 'exit': break
Exit(line) ==
  /\ Reads(line, "exit")
  /\ state' = "exited"
  /\ last' = [NoTurn EXCEPT !.line = line, !.handler = "exit"]
  /\ UNCHANGED <<tables, store, log>>

\* user_input.lower() == 'list': print the registry keys
List(line) ==
  /\ Reads(line, "list")
  /\ last' = [NoTurn EXCEPT !.line = line, !.handler = "list",
                            !.listed = DOMAIN tables]
  /\ UNCHANGED <<tables, store, log, state>>

\* user_input.startswith('load '): load_csv and a success or failure message
Load(line, choice, newname, dropStays) ==
  /\ Reads(line, "load")
  /\ LET filename == LoadFilename(Strip(line))
         r == load_csv(filename, choice, newname, dropStays, tables, store, log)
     IN /\ tables' = r.tables
        /\ store' = r.store
        /\ log' = r.log
        /\ last' = [NoTurn EXCEPT !.line = line, !.handler = "load",
                      !.filename = Some(filename), !.prompted = r.prompted,
                      !.choice = IF r.prompted THEN Some(choice) ELSE None,
                      !.newname = IF r.asked THEN Some(newname) ELSE None,
                      !.ret = Some(r.ret), !.name = r.name]
  /\ UNCHANGED state

\* anything else: the natural-language query path
Query(line, gen) ==
  /\ Reads(line, "query")
  /\ LET q == query_path(gen, tables, store, log)
     IN /\ log' = q.log
        /\ state' = IF q.exc THEN "crashed" ELSE "idle"
        /\ last' = [NoTurn EXCEPT !.line = line, !.handler = "query",
                      !.response = q.response, !.sql = q.sql,
                      !.results = q.results, !.events = q.events]
  /\ UNCHANGED <<tables, store>>

Next ==
  \/ \E line \in Lines : Exit(line)
  \/ \E line \in Lines : List(line)
  \/ \E line \in Lines, choice \in Choices, newname \in NewNames, dropStays \in BOOLEAN :
       Load(line, choice, newname, dropStays)
  \/ \E line \in Lines, gen \in GenOutcomes(ChatReplies) : Query(line, gen)

Spec == Init /\ [][Next]_vars

\* ---------------------------------------------------------------- extraction
\* The pieces generated replies are assembled from.
Pieces == {Select, Lower(Select), FromPrefix \o <<"t", ";">>,
           <<"\n">>, <<" ">>, Explanation}

\* Every text of at most k pieces.
RECURSIVE PieceTexts(_)
PieceTexts(k) ==
  IF k = 0 THEN {<<>>}
  ELSE LET shorter == PieceTexts(k - 1)
       IN shorter \cup {t \o p : t \in shorter, p \in Pieces}

Replies == ChatReplies \cup PieceTexts(MaxPieces)

\* The loop inside a query turn, generate_sql having just returned a text:
\* t.csv is loaded and the reply is any of Replies.
InitExtract ==
  /\ tables = Put(EmptyMap, <<"t">>, FileSystem[Path_t])
  /\ store = Put(EmptyMap, <<"t">>, FileSystem[Path_t])
  /\ log = 0
  /\ state = "idle"
  /\ turns = 1
  /\ \E r \in Replies :
       last = [NoTurn EXCEPT !.handler = "generated", !.response = Some(r)]

\* The rest of the query turn: print the reply, extract, execute, print.
AfterGenerate ==
  /\ last.handler = "generated"
  /\ LET q == query_rest([response |-> last.response, log |-> log, exc |-> FALSE],
                         store)
     IN /\ log' = q.log
        /\ state' = IF q.exc THEN "crashed" ELSE "idle"
        /\ last' = [last EXCEPT !.handler = "query", !.sql = q.sql,
                                !.results = q.results, !.events = q.events]
  /\ turns' = turns + 1
  /\ UNCHANGED <<tables, store>>

SpecExtract == InitExtract /\ [][AfterGenerate]_vars

\* ---------------------------------------------------------------- claims
\* A step of the loop that ran the given handler.
Turn(h) == turns' = turns + 1 /\ last'.handler = h

\* The set of column names of a table.
ColSet(df) == {df.cols[i] : i \in 1..Len(df.cols)}

\* The names in use: registry keys and store tables.
InUse == DOMAIN tables \cup DOMAIN store

\* C1: every key of the registry is a table of the store with the same
\* column set as the registry's data for that name.
C1_RegistryMirrored ==
  \A n \in DOMAIN tables :
    n \in DOMAIN store /\ ColSet(store[n]) = ColSet(tables[n])

\* C10: whenever load_csv returns failure, the registry and the store's
\* tables are exactly what they were before the call.
C10_FailedLoadChangesNothing ==
  [][(Turn("load") /\ last'.ret = Some(FALSE))
       => (tables' = tables /\ store' = store)]_vars

\* C3: a 'skip' answer ('s' in any case) at the collision prompt makes load_csv
\* return failure and leaves the registry, the store and the error log as
\* they were.
C3_SkipChangesNothing ==
  [][(Turn("load") /\ last'.prompted /\ Lower(last'.choice[1]) = <<"s">>)
       => /\ last'.ret = Some(FALSE)
          /\ tables' = tables
          /\ store' = store
          /\ log' = log]_vars

\* C3 witness: an upper-case 'S' answered a collision on table t, which
\* still holds the two rows and two columns of t.csv.
C3_Witness ==
  /\ last.handler = "load"
  /\ last.prompted
  /\ last.choice = Some(<<"S">>)
  /\ last.ret = Some(FALSE)
  /\ last.filename = Some(Path_dt)
  /\ <<"t">> \in DOMAIN store
  /\ store[<<"t">>] = DF(<<"a", "b">>, 2)
  /\ tables[<<"t">>] = DF(<<"a", "b">>, 2)

\* The data of the file a load turn named.
Loaded(l) == FileSystem[l.filename[1]]

\* C2: a successful load_csv leaves, under the name it wrote, a table with the
\* file's N rows and M columns in the registry and in the store (the derived
\* name unless renamed); and loading a file again whose table is already in
\* both, with an answer that is neither rename nor skip (overwrite), returns
\* success and leaves registry and store as the first load left them.
C2_LoadReplaces ==
  [][Turn("load") =>
       /\ last'.ret = Some(TRUE) =>
            LET n == last'.name[1]
                df == Loaded(last')
            IN /\ last'.newname = None => n = SplitextRoot(Basename(last'.filename[1]))
               /\ n \in DOMAIN tables' /\ n \in DOMAIN store'
               /\ tables'[n].rows = df.rows /\ tables'[n].cols = df.cols
               /\ store'[n].rows = df.rows /\ store'[n].cols = df.cols
       /\ (/\ last'.prompted
           /\ Lower(last'.choice[1]) \notin {<<"r">>, <<"s">>}
           /\ last'.filename[1] \in DOMAIN FileSystem
           /\ LET d == SplitextRoot(Basename(last'.filename[1]))
              IN /\ d \in DOMAIN tables
                 /\ tables[d] = Loaded(last')
                 /\ store[d] = Loaded(last'))
          => /\ last'.ret = Some(TRUE)
             /\ tables' = tables
             /\ store' = store]_vars

\* C2 witness: t.csv (2 rows, 2 columns) was loaded, loaded again with the
\* answer 'o', and table t holds 2 rows and 2 columns in registry and store.
C2_Witness ==
  /\ last.handler = "load"
  /\ last.filename = Some(Path_t)
  /\ last.choice = Some(<<"o">>)
  /\ last.ret = Some(TRUE)
  /\ tables[<<"t">>] = DF(<<"a", "b">>, 2)
  /\ store[<<"t">>] = DF(<<"a", "b">>, 2)

\* What C4 concludes: the table under the derived name is untouched and a
\* second table under the new name holds the newly read data, in the registry
\* and in the store, and load_csv returned success.
RenameMadeSecondTable ==
  LET d == SplitextRoot(Basename(last'.filename[1]))
      nn == last'.newname[1]
  IN /\ last'.ret = Some(TRUE)
     /\ d \in DOMAIN tables' /\ d \in DOMAIN store'
     /\ d \in DOMAIN tables /\ tables'[d] = tables[d]
     /\ store'[d] = store[d]
     /\ nn \in DOMAIN tables' /\ nn \in DOMAIN store'
     /\ tables'[nn] = Loaded(last')
     /\ store'[nn] = Loaded(last')

\* C4 as stated: after a 'rename' answer with a name not yet in use, the
\* original table and a second table under the new name both exist, and
\* load_csv returned success.
C4_RenameAlwaysSucceeds ==
  [][(Turn("load") /\ last'.prompted /\ Lower(last'.choice[1]) = <<"r">>)
       => /\ last'.newname # None
          /\ last'.newname[1] \notin InUse => RenameMadeSecondTable]_vars

\* The store takes a new table of this name and data: the name is not empty,
\* no table has that name ignoring case, and no two columns are equal
\* ignoring case.
StoreTakes(name, df) ==
  /\ name # <<>>
  /\ \A n \in DOMAIN store : Lower(n) # Lower(name)
  /\ \A i, j \in 1..Len(df.cols) :
       i # j => LowerChar(df.cols[i]) # LowerChar(df.cols[j])

\* C4, amended: after a 'rename' answer with a name not yet in use that the
\* store accepts for the newly read data, the original table (unchanged) and
\* a second table under the new name both exist in the registry and in the
\* store, and load_csv returned success.
C4_RenameSucceedsWhenStoreTakes ==
  [][(Turn("load") /\ last'.prompted /\ Lower(last'.choice[1]) = <<"r">>)
       => /\ last'.newname # None
          /\ (last'.newname[1] \notin InUse
              /\ StoreTakes(last'.newname[1], Loaded(last')))
             => RenameMadeSecondTable]_vars

\* C4 witness: t.csv was loaded twice, the second time renamed to u; t and u
\* both hold its data in the registry and in the store.
C4_Witness ==
  /\ last.handler = "load"
  /\ last.choice = Some(<<"r">>)
  /\ last.newname = Some(<<"u">>)
  /\ last.ret = Some(TRUE)
  /\ DOMAIN tables = {<<"t">>, <<"u">>}
  /\ DOMAIN store = {<<"t">>, <<"u">>}
  /\ tables[<<"u">>] = FileSystem[Path_t]
  /\ store[<<"u">>] = FileSystem[Path_t]

\* The handler the dispatch rules give a line: the first rule that matches
\* the trimmed line, in the order exit, list, load, query.
Rule(line) ==
  LET u == Strip(line)
  IN CASE Lower(u) = W_exit -> "exit"
       [] Lower(u) # W_exit /\ Lower(u) = W_list -> "list"
       [] Lower(u) \notin {W_exit, W_list} /\ Len(u) >= 5 /\ SubSeq(u, 1, 5) = W_load_ -> "load"
       [] OTHER -> "query"

\* C5: each line runs exactly the handler of the first matching rule: 'exit'
\* and 'list' ignoring case, the exact lower-case prefix 'load ' with the
\* trimmed remainder as the path, anything else ('LOAD x', a bare 'load', a
\* tab after load) as a query; exit ends the loop, list lists the registry
\* keys, and only a query takes query steps.
C5_Dispatch ==
  last.handler # "none" =>
    /\ last.handler = Rule(last.line)
    /\ last.line = <<"L", "O", "A", "D", " ", "t", ".", "c", "s", "v">> => last.handler = "query"
    /\ last.line = <<"l", "o", "a", "d">> => last.handler = "query"
    /\ last.line = <<"l", "o", "a", "d", "\t", "t", ".", "c", "s", "v">> => last.handler = "query"
    /\ last.line = <<" ", "E", "X", "I", "T", " ">> => last.handler = "exit"
    /\ last.line = <<"L", "i", "s", "t">> => last.handler = "list"
    /\ last.line = <<"l", "o", "a", "d", " ", " ", "d", "/", "t", ".", "c", "s", "v", " ">> =>
         last.handler = "load" /\ last.filename = Some(Path_dt)
    /\ (last.handler = "exit") = (state = "exited")
    /\ last.handler = "list" => last.listed = DOMAIN tables
    /\ last.handler = "load" =>
         last.filename = Some(Strip(SubSeq(Strip(last.line), 6, Len(Strip(last.line)))))
    /\ (last.handler = "load") = (last.ret # None)
    /\ (last.handler = "query") = (last.events # <<>>)

\* C5 witness: the line 'LOAD t.csv' was taken as a query.
C5_Witness ==
  /\ last.line = <<"L", "O", "A", "D", " ", "t", ".", "c", "s", "v">>
  /\ last.handler = "query"
  /\ last.events # <<>>

\* Whether an event is among the steps of the last turn.
Did(e) == \E i \in 1..Len(last.events) : last.events[i] = e

\* Whether text holds the word w.
Contains(text, w) == \E i \in 1..Len(text) : MatchAt(text, i, w)

\* The generator returned a text (neither None nor empty).
ReturnedText == last.response # None /\ Len(last.response[1]) > 0

\* C6: a query turn takes its steps only in the order generate, print reply,
\* extract, execute, print results; the executor runs only if the generator
\* returned text and the extraction found SQL (a reply holding 'SELECT');
\* results are printed only if the execution succeeded; the apology is
\* printed if and only if the generator returned no text.
C6_QueryOrder ==
  last.handler = "query" =>
    /\ last.events \in
         {<<"generate", "apology">>,
          <<"generate", "print_reply", "extract">>,
          <<"generate", "print_reply", "extract", "execute">>,
          <<"generate", "print_reply", "extract", "execute", "print_results">>}
    /\ Did("execute") => (ReturnedText /\ last.sql # None
                          /\ Contains(last.response[1], Select))
    /\ Did("print_results") => (Did("execute") /\ last.results # None)
    /\ Did("apology") = ~ReturnedText
    /\ Did("print_reply") = ReturnedText

\* C6 witness: the generator returned a text with no upper-case SELECT; the
\* turn stopped after the extraction without an apology.
C6_Witness ==
  /\ last.handler = "query"
  /\ ReturnedText
  /\ ~Contains(last.response[1], Select)
  /\ last.events = <<"generate", "print_reply", "extract">>

\* C8: execute_query on SQL the store rejects returns None, appends exactly one
\* entry to the error log, raises nothing (the loop stays idle), leaves the
\* registry and the store unchanged, and runs once, after one generation.
C8_RejectedQuery ==
  [][(/\ Turn("query")
      /\ \E i \in 1..Len(last'.events) : last'.events[i] = "execute"
      /\ \A n \in DOMAIN store : last'.sql[1] # SelectStar(n))
       => /\ last'.results = None
          /\ log' = log + 1
          /\ state' = "idle"
          /\ tables' = tables
          /\ store' = store
          /\ last'.events = <<"generate", "print_reply", "extract", "execute">>]_vars

\* C8 witness: SELECT * FROM z; was executed with no table z in the store that
\* holds table t; no result, one log entry.
C8_Witness ==
  /\ last.handler = "query"
  /\ last.sql = Some(SelectStar(<<"z">>))
  /\ Did("execute")
  /\ last.results = None
  /\ DOMAIN store = {<<"t">>}
  /\ log = 1
  /\ state = "idle"

\* C9: the loop is exited only by an 'exit' line; every other turn, failed or
\* not, ends idle; nothing escapes to the top level; after 'exit' nothing more
\* is read or done.
C9_OnlyExitEnds ==
  /\ [](state \in {"idle", "exited"})
  /\ [](state = "exited" => last.handler = "exit")
  /\ [][/\ state = "exited" => UNCHANGED vars
        /\ (turns' = turns + 1 /\ last'.handler # "exit") => state' = "idle"
        /\ (turns' = turns + 1 /\ last'.handler = "exit") => state' = "exited"]_vars

\* C9 witness: two turns failed (two log entries) and the loop then exited.
C9_Witness ==
  /\ state = "exited"
  /\ last.handler = "exit"
  /\ log = 2

\* The part of a reply from its first 'SELECT' to just before the next
\* 'Explanation', or to the end of the text; None without a 'SELECT'.
SelectPart(text) ==
  IF ~Contains(text, Select) THEN None
  ELSE LET i == CHOOSE a \in 1..Len(text) :
                  MatchAt(text, a, Select) /\ \A b \in 1..(a - 1) : ~MatchAt(text, b, Select)
           ex == {j \in (i + 1)..Len(text) : MatchAt(text, j, Explanation)}
           e == IF ex = {} THEN Len(text) + 1
                ELSE CHOOSE a \in ex : \A b \in ex : a <= b
       IN Some(SubSeq(text, i, e - 1))

\* C7 as stated: the extracted SQL is exactly that part, nothing trimmed; for
\* the example reply it is "SELECT * FROM t;\n"; without 'SELECT' there is no
\* match and nothing is executed.
C7_ExtractsUntrimmed ==
  (last.handler = "query" /\ ReturnedText) =>
    /\ last.sql = SelectPart(last.response[1])
    /\ last.response[1] = Reply_example =>
         last.sql = Some(SelectStar(<<"t">>) \o <<"\n">>)
    /\ ~Contains(last.response[1], Select) => (last.sql = None /\ ~Did("execute"))

\* C7, amended: the extracted SQL is that part with leading and trailing
\* whitespace stripped; for the example reply it is "SELECT * FROM t;";
\* without 'SELECT' there is no match and nothing is executed.
C7_ExtractsStripped ==
  (last.handler = "query" /\ ReturnedText) =>
    /\ last.sql = (IF SelectPart(last.response[1]) = None THEN None
                   ELSE Some(Strip(SelectPart(last.response[1])[1])))
    /\ last.response[1] = Reply_example =>
         (last.sql = Some(SelectStar(<<"t">>)) /\ Did("execute"))
    /\ ~Contains(last.response[1], Select) => (last.sql = None /\ ~Did("execute"))

\* C7 witness: the example reply was handled and SELECT * FROM t; was run.
C7_Witness ==
  /\ last.handler = "query"
  /\ last.response = Some(Reply_example)
  /\ last.sql = Some(SelectStar(<<"t">>))
  /\ last.results = Some(FileSystem[Path_t])

====
